---- MODULE Spec2Model ----
(***************************************************************************)
(* A model of synapse's glob based user/role rule store (UserAuth), its    *)
(* per-user rule cache (Rules), and the swarm runtime's ask() that filters *)
(* query answers through that cache.                                       *)
(*                                                                         *)
(* Strings whose characters the code looks at (names that are formatted    *)
(* into keys, glob rules, permission strings) are sequences of one         *)
(* character strings.  Strings the code only compares (property names,     *)
(* property values, error names) are TLA+ strings.                         *)
(***************************************************************************)
EXTENDS Integers, Sequences, FiniteSets, TLC

VARIABLES
    users,      \* names of the auth:user tufos ( UserAuth.users over the core )
    roles,      \* names of the auth:role tufos ( UserAuth.roles over the core )
    userRules,  \* user name -> the 'auth:rules' list of its tufo
    roleRules,  \* role name -> the 'auth:rules' list of its tufo
    links,      \* the auth:userrole tufos of the core
    rcache,     \* UserAuth.rules: user name -> its Rules object
    last,       \* the last call made and what it returned or raised
    thr,        \* threads inside Rules.allow: where each one stands
    bmp,        \* the thread inside Rules._onBumpUser: where it stands
    actfuncs,   \* Reactor.actfuncs: message type -> the handler registered
    reacted     \* the registrations made on the Reactor and its last call

vars ==
    <<users, roles, userRules, roleRules, links, rcache, last, thr, bmp,
      actfuncs, reacted>>

----------------------------------------------------------------------------
(* Bounds of the model *)

\* the most rules the store holds, over all users and roles
MaxRules == 1

\* the most auth:userrole tufos the store holds
MaxLinks == 2

\* the most operators of a query
MaxOps == 3

----------------------------------------------------------------------------
(* The strings of the model *)

None == <<>>

Colon == <<":">>

TufoFormDot == <<"t","u","f","o",".","f","o","r","m",".">>

FormFooBar == <<"f","o","o",":","b","a","r">>

FormZzzWoot == <<"z","z","z",":","w","o","o","t">>

\* user names: 'a' and 'a:b'
UserA == <<"a">>

UserAB == <<"a",":","b">>

UserNames == {UserA, UserAB}

\* role names: 'c' and 'b:c'
RoleC == <<"c">>

RoleBC == <<"b",":","c">>

RoleNames == {RoleC, RoleBC}

\* the rule 'tufo.form.foo:*' of test_swarm_runtime_userauth_form
RuleFooStar == TufoFormDot \o <<"f","o","o",":","*">>

\* the rule 'tufo.form.???:woot'
RuleAnyWoot == TufoFormDot \o <<"?","?","?",":","w","o","o","t">>

\* the rules given to users and roles of the store
GlobRules == {RuleFooStar}

\* the rules of a rule list that allow() scans
ScanRules == {RuleFooStar, RuleAnyWoot}

\* the permission string the runtime asks about for a tufo of a form
FormPerm(form) == TufoFormDot \o form

PermFooBar == FormPerm(FormFooBar)

PermZzzWoot == FormPerm(FormZzzWoot)

Perms == {PermFooBar, PermZzzWoot}

\* 'foo:woot', which both rules match, and 'zzz:bar', which neither does
FormFooWoot == <<"f","o","o",":","w","o","o","t">>

FormZzzBar == <<"z","z","z",":","b","a","r">>

\* the permission strings allow() is asked about
ScanPerms == Perms \cup {FormPerm(FormFooWoot), FormPerm(FormZzzBar)}

----------------------------------------------------------------------------
(* fnmatch.fnmatch(name, pat) on posix: '*' matches any run of characters, *)
(* '?' any one character, any other character itself.  The patterns of     *)
(* the model hold no '['.                                                  *)

RECURSIVE FnMatch(_, _)
FnMatch(name, pat) ==
    IF pat = <<>> THEN name = <<>>
    ELSE IF Head(pat) = "*"
         THEN FnMatch(name, Tail(pat))
              \/ (name # <<>> /\ FnMatch(Tail(name), pat))
         ELSE /\ name # <<>>
              /\ (Head(pat) = "?" \/ Head(pat) = Head(name))
              /\ FnMatch(Tail(name), Tail(pat))

\* a loop that gives up after the first rule
RuleScanFirstOnly(rules, perm) ==
    rules # <<>> /\ FnMatch(perm, Head(rules))

\* the loop of Rules.allow: False unless a rule matches, stop at the first
RECURSIVE RuleScan(_, _)
RuleScan(rules, perm) ==
    IF rules = <<>> THEN FALSE
    ELSE IF FnMatch(perm, Head(rules)) THEN TRUE
         ELSE RuleScan(Tail(rules), perm)

----------------------------------------------------------------------------
(* The core's tufo lists and auth:userrole tufos *)

EmptyMap == [x \in {} |-> FALSE]

Range(s) == {s[i] : i \in 1..Len(s)}

\* core.delTufoListValu: the rows of the list with that value are deleted
DelListValu(list, valu) == SelectSeq(list, LAMBDA x : x # valu)

\* the primary property of an auth:userrole tufo: '%s:%s' % (user,role)
UserRoleKey(user, role) == user \o Colon \o role

RECURSIVE SumLen(_, _)
SumLen(f, S) ==
    IF S = {} THEN 0
    ELSE LET x == CHOOSE y \in S : TRUE
         IN  Len(f[x]) + SumLen(f, S \ {x})

TotalRules == SumLen(userRules, UserNames) + SumLen(roleRules, RoleNames)

\* the rows of a lift, in the one order the core returns them in
RECURSIVE RowOrder(_)
RowOrder(S) ==
    IF S = {} THEN <<>>
    ELSE LET x == CHOOSE y \in S : TRUE
         IN  <<x>> \o RowOrder(S \ {x})

\* core.getTufosByProp('auth:userrole:user', user)
LinksOfUser(lnks, user) == RowOrder({l \in lnks : l.user = user})

\* core.getTufosByProp('auth:userrole:role', role), then the user of each
UsersOfRole(lnks, role) == {l.user : l \in {x \in lnks : x.role = role}}

RECURSIVE RoleRulesOf(_, _)
RoleRulesOf(rRules, lnks) ==
    IF lnks = <<>> THEN <<>>
    ELSE rRules[Head(lnks).role] \o RoleRulesOf(rRules, Tail(lnks))

\* UserAuth.getUserRules on a store: own rules, then each linked role's
GetUserRulesOf(uRules, rRules, lnks, user) ==
    uRules[user] \o RoleRulesOf(rRules, LinksOfUser(lnks, user))

GetUserRules(user) == GetUserRulesOf(userRules, roleRules, links, user)

----------------------------------------------------------------------------
(* The Rules object of one user: its rule list and its decision cache *)

\* Rules.__init__: an empty cache and the user's rules as of now
RulesInit(user) == [rules |-> GetUserRules(user), cache |-> EmptyMap]

\* a handler that takes the rules and leaves the decisions
OnBumpUserKeepCache(obj, rules) == [obj EXCEPT !.rules = rules]

\* Rules._onBumpUser: the rules of the message, then cache.clear()
OnBumpUser(obj, rules) == [rules |-> rules, cache |-> EmptyMap]

\* Rules.allow: the cached decision ( False is one too ), or else the
\* scan of the rules, which is stored.  The result and the object after.
RulesAllow(obj, perm) ==
    IF perm \in DOMAIN obj.cache
    THEN [ret |-> obj.cache[perm], obj |-> obj]
    ELSE LET ret == RuleScan(obj.rules, perm)
         IN  [ret |-> ret,
              obj |-> [obj EXCEPT !.cache = (perm :> ret) @@ obj.cache]]

\* What allow(perm) returns on the object, its state left alone
AllowPeek(obj, perm) == RulesAllow(obj, perm).ret

\* a bump that every Rules object takes, whatever its user
BumpUserRulesAll(rc, user, uRules, rRules, lnks) ==
    [u \in DOMAIN rc |->
        OnBumpUser(rc[u], GetUserRulesOf(uRules, rRules, lnks, user))]

\* UserAuth._bumpUserRules: getUserRules on the store as it is now, fired
\* as auth:bump:<user>, which only that user's Rules object listens to
BumpUserRules(rc, user, uRules, rRules, lnks) ==
    IF user \in DOMAIN rc
    THEN [rc EXCEPT ![user] =
              OnBumpUser(rc[user], GetUserRulesOf(uRules, rRules, lnks, user))]
    ELSE rc

\* a loop that notifies one user of the list and stops
BumpEachFirstOnly(rc, S, uRules, rRules, lnks) ==
    IF S = {} THEN rc
    ELSE BumpUserRules(rc, CHOOSE x \in S : TRUE, uRules, rRules, lnks)

\* _bumpUserRules for each user of a list, as addRoleRule, delRoleRule and
\* delRole do
RECURSIVE BumpEach(_, _, _, _, _)
BumpEach(rc, S, uRules, rRules, lnks) ==
    IF S = {} THEN rc
    ELSE LET u == CHOOSE x \in S : TRUE
         IN  BumpEach(BumpUserRules(rc, u, uRules, rRules, lnks),
                      S \ {u}, uRules, rRules, lnks)

\* KeyCache.get(user) of UserAuth.rules: the object held, or a new Rules
RulesGet(rc, user) ==
    IF user \in DOMAIN rc THEN rc ELSE (user :> RulesInit(user)) @@ rc

\* a pop that leaves the Rules object where it is
RulesPopKeep(rc, user) == rc

\* KeyCache.pop(user)
RulesPop(rc, user) == [u \in DOMAIN rc \ {user} |-> rc[u]]

\* UserAuth.isUserAllowed for a user that exists or has a Rules object
IsUserAllowedOn(rc, user, perm) ==
    LET rc1 == RulesGet(rc, user)
        res == RulesAllow(rc1[user], perm)
    IN  [ret |-> res.ret, rc |-> [rc1 EXCEPT ![user] = res.obj]]

\* core.formTufoByProp('auth:userrole', key, user=, role=): the tufo of
\* that key if there is one, a new tufo otherwise
FormUserRole(lnks, user, role) ==
    IF \E l \in lnks : l.key = UserRoleKey(user, role)
    THEN lnks
    ELSE lnks \cup {[key |-> UserRoleKey(user, role),
                     user |-> user, role |-> role]}

\* core.delTufoByProp('auth:userrole', key)
DelUserRoleKey(lnks, key) == {l \in lnks : l.key # key}

----------------------------------------------------------------------------
(* The calls of UserAuth.  Each records itself in last. *)

NoCall ==
    [op |-> "", user |-> None, role |-> None, rule |-> None, perm |-> None,
     err |-> "", ret |-> FALSE, data |-> <<>>, query |-> <<>>,
     bumped |-> {}, old |-> <<>>, cached |-> {}, down |-> {},
     failed |-> {}, tufo |-> None]

\* the permissions decided in the user's Rules object, if it has one
CachedPerms(user) ==
    IF user \in DOMAIN rcache THEN DOMAIN rcache[user].cache ELSE {}

Raise(call, err) ==
    /\ last' = [call EXCEPT !.err = err]
    /\ UNCHANGED <<users, roles, userRules, roleRules, links, rcache>>

\* an addUser that hands back the tufo of a user who is there already
AddUserFormsAgain(user) ==
    /\ users' = users \cup {user}
    /\ userRules' = [userRules EXCEPT
                        ![user] = IF user \in users THEN @ ELSE <<>>]
    /\ last' = [NoCall EXCEPT !.op = "addUser", !.user = user]
    /\ UNCHANGED <<roles, roleRules, links, rcache>>
    /\ UNCHANGED <<thr, bmp, actfuncs, reacted>>

AddUser(user) ==
    LET call == [NoCall EXCEPT !.op = "addUser", !.user = user]
    IN  /\ IF user \in users
           THEN Raise(call, "DupUser")
           ELSE /\ users' = users \cup {user}
                /\ userRules' = [userRules EXCEPT ![user] = <<>>]
                /\ last' = call
                /\ UNCHANGED <<roles, roleRules, links, rcache>>
        /\ UNCHANGED <<thr, bmp, actfuncs, reacted>>

AddRole(role) ==
    LET call == [NoCall EXCEPT !.op = "addRole", !.role = role]
    IN  /\ IF role \in roles
           THEN Raise(call, "DupRole")
           ELSE /\ roles' = roles \cup {role}
                /\ roleRules' = [roleRules EXCEPT ![role] = <<>>]
                /\ last' = call
                /\ UNCHANGED <<users, userRules, links, rcache>>
        /\ UNCHANGED <<thr, bmp, actfuncs, reacted>>

AddUserRule(user, rule) ==
    LET call == [NoCall EXCEPT !.op = "addUserRule", !.user = user,
                               !.rule = rule]
    IN  /\ IF user \notin users
           THEN Raise(call, "NoSuchUser")
           ELSE /\ TotalRules < MaxRules
                /\ userRules' = [userRules EXCEPT ![user] = Append(@, rule)]
                /\ rcache' = BumpUserRules(rcache, user,
                                           userRules', roleRules, links)
                /\ last' = [call EXCEPT !.bumped = {user},
                                        !.cached = CachedPerms(user)]
                /\ UNCHANGED <<users, roles, roleRules, links>>
        /\ UNCHANGED <<thr, bmp, actfuncs, reacted>>

DelUserRule(user, rule) ==
    LET call == [NoCall EXCEPT !.op = "delUserRule", !.user = user,
                               !.rule = rule]
    IN  /\ IF user \notin users
           THEN Raise(call, "NoSuchUser")
           ELSE /\ userRules' = [userRules EXCEPT
                                    ![user] = DelListValu(@, rule)]
                /\ rcache' = BumpUserRules(rcache, user,
                                           userRules', roleRules, links)
                /\ last' = [call EXCEPT !.bumped = {user},
                                        !.cached = CachedPerms(user)]
                /\ UNCHANGED <<users, roles, roleRules, links>>
        /\ UNCHANGED <<thr, bmp, actfuncs, reacted>>

\* an addUserRole that forms the link before it asks for the role
AddUserRoleLinkFirst(user, role) ==
    LET call == [NoCall EXCEPT !.op = "addUserRole", !.user = user,
                               !.role = role]
    IN  /\ IF user \notin users
           THEN Raise(call, "NoSuchUser")
           ELSE /\ Cardinality(FormUserRole(links, user, role)) <= MaxLinks
                /\ links' = FormUserRole(links, user, role)
                /\ rcache' = BumpUserRules(rcache, user,
                                           userRules, roleRules, links')
                /\ last' = [call EXCEPT
                               !.bumped = {user},
                               !.err = IF role \in roles THEN ""
                                       ELSE "NoSuchRole"]
                /\ UNCHANGED <<users, roles, userRules, roleRules>>
        /\ UNCHANGED <<thr, bmp, actfuncs, reacted>>

AddUserRole(user, role) ==
    LET call == [NoCall EXCEPT !.op = "addUserRole", !.user = user,
                               !.role = role]
    IN  /\ IF user \notin users
           THEN Raise(call, "NoSuchUser")
           ELSE IF role \notin roles
           THEN Raise(call, "NoSuchRole")
           ELSE /\ Cardinality(FormUserRole(links, user, role)) <= MaxLinks
                /\ links' = FormUserRole(links, user, role)
                /\ rcache' = BumpUserRules(rcache, user,
                                           userRules, roleRules, links')
                /\ last' = [call EXCEPT !.bumped = {user}]
                /\ UNCHANGED <<users, roles, userRules, roleRules>>
        /\ UNCHANGED <<thr, bmp, actfuncs, reacted>>

DelUserRole(user, role) ==
    LET call == [NoCall EXCEPT !.op = "delUserRole", !.user = user,
                               !.role = role]
    IN  /\ IF user \notin users
           THEN Raise(call, "NoSuchUser")
           ELSE IF role \notin roles
           THEN Raise(call, "NoSuchRole")
           ELSE /\ links' = DelUserRoleKey(links, UserRoleKey(user, role))
                /\ rcache' = BumpUserRules(rcache, user,
                                           userRules, roleRules, links')
                /\ last' = [call EXCEPT !.bumped = {user}]
                /\ UNCHANGED <<users, roles, userRules, roleRules>>
        /\ UNCHANGED <<thr, bmp, actfuncs, reacted>>

AddRoleRule(role, rule) ==
    LET call == [NoCall EXCEPT !.op = "addRoleRule", !.role = role,
                               !.rule = rule]
    IN  /\ IF role \notin roles
           THEN Raise(call, "NoSuchRole")
           ELSE /\ TotalRules < MaxRules
                /\ roleRules' = [roleRules EXCEPT ![role] = Append(@, rule)]
                /\ rcache' = BumpEach(rcache, UsersOfRole(links, role),
                                      userRules, roleRules', links)
                /\ last' = [call EXCEPT !.bumped = UsersOfRole(links, role)]
                /\ UNCHANGED <<users, roles, userRules, links>>
        /\ UNCHANGED <<thr, bmp, actfuncs, reacted>>

DelRoleRule(role, rule) ==
    LET call == [NoCall EXCEPT !.op = "delRoleRule", !.role = role,
                               !.rule = rule]
    IN  /\ IF role \notin roles
           THEN Raise(call, "NoSuchRole")
           ELSE /\ roleRules' = [roleRules EXCEPT
                                    ![role] = DelListValu(@, rule)]
                /\ rcache' = BumpEach(rcache, UsersOfRole(links, role),
                                      userRules, roleRules', links)
                /\ last' = [call EXCEPT !.bumped = UsersOfRole(links, role)]
                /\ UNCHANGED <<users, roles, userRules, links>>
        /\ UNCHANGED <<thr, bmp, actfuncs, reacted>>

DelUser(user) ==
    LET call == [NoCall EXCEPT !.op = "delUser", !.user = user]
    IN  /\ IF user \notin users
           THEN Raise(call, "NoSuchUser")
           ELSE /\ users' = users \ {user}
                /\ userRules' = [userRules EXCEPT ![user] = <<>>]
                /\ links' = {l \in links : l.user # user}
                /\ rcache' = RulesPop(rcache, user)
                /\ last' = [call EXCEPT !.cached = CachedPerms(user)]
                /\ UNCHANGED <<roles, roleRules>>
        /\ UNCHANGED <<thr, bmp, actfuncs, reacted>>

DelRole(role) ==
    LET call == [NoCall EXCEPT !.op = "delRole", !.role = role]
    IN  /\ IF role \notin roles
           THEN Raise(call, "NoSuchRole")
           ELSE /\ roles' = roles \ {role}
                /\ roleRules' = [roleRules EXCEPT ![role] = <<>>]
                /\ links' = {l \in links : l.role # role}
                /\ rcache' = BumpEach(rcache, UsersOfRole(links, role),
                                      userRules, roleRules', links')
                /\ last' = [call EXCEPT !.bumped = UsersOfRole(links, role),
                                        !.old = roleRules[role]]
                /\ UNCHANGED <<users, userRules>>
        /\ UNCHANGED <<thr, bmp, actfuncs, reacted>>

IsUserAllowed(user, perm) ==
    LET call == [NoCall EXCEPT !.op = "isUserAllowed", !.user = user,
                               !.perm = perm]
    IN  /\ IF user \notin DOMAIN rcache /\ user \notin users
           THEN Raise(call, "NoSuchUser")
           ELSE LET res == IsUserAllowedOn(rcache, user, perm)
                IN  /\ rcache' = res.rc
                    /\ last' = [call EXCEPT !.ret = res.ret,
                                            !.cached = CachedPerms(user)]
                    /\ UNCHANGED <<users, roles, userRules, roleRules, links>>
        /\ UNCHANGED <<thr, bmp, actfuncs, reacted>>

\* 'tele:sock:init' fired on the auth: Rules._onTeleSock of every Rules
\* object runs self.auth.getUserRules(user), where no name user is bound
\* ( it is self.user ), so each handler raises NameError before its first
\* assignment.  last.bumped names the users whose handler raised.
TeleSockInit ==
    /\ last' = [NoCall EXCEPT !.op = "tele:sock:init",
                              !.err = IF DOMAIN rcache = {} THEN ""
                                      ELSE "NameError",
                              !.bumped = DOMAIN rcache]
    /\ UNCHANGED <<users, roles, userRules, roleRules, links, rcache>>
    /\ UNCHANGED <<thr, bmp, actfuncs, reacted>>

\* UserAuth.getUser: self.users.get(user), the tufo or None.  A tufo is
\* told by its name.
GetUser(user) ==
    /\ last' = [NoCall EXCEPT !.op = "getUser", !.user = user,
                              !.tufo = IF user \in users THEN user ELSE None]
    /\ UNCHANGED <<users, roles, userRules, roleRules, links, rcache>>
    /\ UNCHANGED <<thr, bmp, actfuncs, reacted>>

\* UserAuth.getRole: the method is its docstring and no statement, so it
\* returns None whatever the role
GetRole(role) ==
    /\ last' = [NoCall EXCEPT !.op = "getRole", !.role = role, !.tufo = None]
    /\ UNCHANGED <<users, roles, userRules, roleRules, links, rcache>>
    /\ UNCHANGED <<thr, bmp, actfuncs, reacted>>

----------------------------------------------------------------------------

NoThreads == [t \in {} |-> None]

\* no registration made and no message dispatched
NoReact ==
    [regs |-> <<>>, op |-> "", mesg |-> <<>>, invoked |-> <<>>, ret |-> 0,
     err |-> "", before |-> EmptyMap]

\* UserAuth(core) on a new core: no users, no roles, no Rules objects
Init ==
    /\ users = {}
    /\ roles = {}
    /\ userRules = [u \in UserNames |-> <<>>]
    /\ roleRules = [r \in RoleNames |-> <<>>]
    /\ links = {}
    /\ rcache = EmptyMap
    /\ last = NoCall
    /\ thr = NoThreads
    /\ bmp = "idle"
    /\ actfuncs = EmptyMap
    /\ reacted = NoReact

Next ==
    \/ \E u \in UserNames : AddUser(u)
    \/ \E r \in RoleNames : AddRole(r)
    \/ \E u \in UserNames, g \in GlobRules : AddUserRule(u, g)
    \/ \E u \in UserNames, g \in GlobRules : DelUserRule(u, g)
    \/ \E u \in UserNames, r \in RoleNames : AddUserRole(u, r)
    \/ \E u \in UserNames, r \in RoleNames : DelUserRole(u, r)
    \/ \E r \in RoleNames, g \in GlobRules : AddRoleRule(r, g)
    \/ \E r \in RoleNames, g \in GlobRules : DelRoleRule(r, g)
    \/ \E u \in UserNames : DelUser(u)
    \/ \E r \in RoleNames : DelRole(r)
    \/ \E u \in UserNames, p \in Perms : IsUserAllowed(u, p)
    \/ TeleSockInit

Spec == Init /\ [][Next]_vars

----------------------------------------------------------------------------
(* Users and roles added, deleted and looked up by name *)

NextGet ==
    \/ \E u \in UserNames : AddUser(u)
    \/ \E r \in RoleNames : AddRole(r)
    \/ \E u \in UserNames : DelUser(u)
    \/ \E r \in RoleNames : DelRole(r)
    \/ \E u \in UserNames : GetUser(u)
    \/ \E r \in RoleNames : GetRole(r)

SpecGet == Init /\ [][NextGet]_vars

----------------------------------------------------------------------------
(* Rules.allow on rule lists of every shape: a core that already holds    *)
(* the user 'a' and its rules, checks of that user, and rule deletions.    *)

\* the longest rule list the core starts with
MaxScan == 2

RuleLists(n) == UNION {[1..k -> ScanRules] : k \in 0..n}

InitAllow ==
    /\ users = {UserA}
    /\ roles = {}
    /\ \E R \in RuleLists(MaxScan) :
           userRules = [u \in UserNames |-> IF u = UserA THEN R ELSE <<>>]
    /\ roleRules = [r \in RoleNames |-> <<>>]
    /\ links = {}
    /\ rcache = EmptyMap
    /\ last = NoCall
    /\ thr = NoThreads
    /\ bmp = "idle"
    /\ actfuncs = EmptyMap
    /\ reacted = NoReact

NextAllow ==
    \/ \E p \in ScanPerms : IsUserAllowed(UserA, p)
    \/ \E g \in ScanRules : DelUserRule(UserA, g)

SpecAllow == InitAllow /\ [][NextAllow]_vars

----------------------------------------------------------------------------
(* Threads on the Rules object of user 'a': readers inside allow(), and    *)
(* the thread that changes the user's rules and so runs _onBumpUser.       *)
(* A thread switch can fall between any two statements.                    *)

\* the reader threads
NumReaders == 2

Readers == 1..NumReaders

Idle == [pc |-> "idle", perm |-> None, ret |-> FALSE, clean |-> FALSE]

\* allow() line 46: ret = self.cache.get(perm); a hit goes to the return.
\* clean: no _onBumpUser was under way when the call began.
AllowGet(t, perm) ==
    /\ thr[t].pc \in {"idle", "done"}
    /\ LET obj == rcache[UserA]
       IN  thr' = [thr EXCEPT ![t] =
                     IF perm \in DOMAIN obj.cache
                     THEN [pc |-> "done", perm |-> perm,
                           ret |-> obj.cache[perm], clean |-> bmp = "idle"]
                     ELSE [pc |-> "scan", perm |-> perm,
                           ret |-> FALSE, clean |-> bmp = "idle"]]
    /\ UNCHANGED <<users, roles, userRules, roleRules, links, rcache, last, bmp>>
    /\ UNCHANGED <<actfuncs, reacted>>

\* allow() lines 49-53: the loop over the list self.rules names just then
AllowScan(t) ==
    /\ thr[t].pc = "scan"
    /\ thr' = [thr EXCEPT ![t].pc = "store",
                          ![t].ret = RuleScan(rcache[UserA].rules, thr[t].perm)]
    /\ UNCHANGED <<users, roles, userRules, roleRules, links, rcache, last, bmp>>
    /\ UNCHANGED <<actfuncs, reacted>>

\* allow() lines 55-57: self.cache[perm] = ret; return ret
AllowStore(t) ==
    /\ thr[t].pc = "store"
    /\ rcache' = [rcache EXCEPT ![UserA].cache =
                      (thr[t].perm :> thr[t].ret) @@ @]
    /\ thr' = [thr EXCEPT ![t].pc = "done"]
    /\ UNCHANGED <<users, roles, userRules, roleRules, links, last, bmp>>
    /\ UNCHANGED <<actfuncs, reacted>>

\* addUserRule / delUserRule up to _onBumpUser line 33: self.rules = rules.
\* Calls of allow() under way are no longer clean.
BumpSet(rules) ==
    /\ bmp = "idle"
    /\ userRules' = [userRules EXCEPT ![UserA] = rules]
    /\ rcache' = [rcache EXCEPT ![UserA].rules =
                      GetUserRulesOf(userRules', roleRules, links, UserA)]
    /\ bmp' = "clear"
    /\ thr' = [t \in Readers |-> [thr[t] EXCEPT !.clean = FALSE]]
    /\ UNCHANGED <<users, roles, roleRules, links, last>>
    /\ UNCHANGED <<actfuncs, reacted>>

BumpAdd(rule) ==
    /\ TotalRules < MaxRules
    /\ BumpSet(Append(userRules[UserA], rule))

BumpDel(rule) == BumpSet(DelListValu(userRules[UserA], rule))

\* _onBumpUser line 34: self.cache.clear()
BumpClear ==
    /\ bmp = "clear"
    /\ rcache' = [rcache EXCEPT ![UserA].cache = EmptyMap]
    /\ bmp' = "idle"
    /\ UNCHANGED <<users, roles, userRules, roleRules, links, last, thr>>
    /\ UNCHANGED <<actfuncs, reacted>>

InitRace ==
    /\ users = {UserA}
    /\ roles = {}
    /\ userRules = [u \in UserNames |-> <<>>]
    /\ roleRules = [r \in RoleNames |-> <<>>]
    /\ links = {}
    /\ rcache = (UserA :> [rules |-> <<>>, cache |-> EmptyMap])
    /\ last = NoCall
    /\ thr = [t \in Readers |-> Idle]
    /\ bmp = "idle"
    /\ actfuncs = EmptyMap
    /\ reacted = NoReact

NextRace ==
    \/ \E t \in Readers, p \in Perms : AllowGet(t, p)
    \/ \E t \in Readers : AllowScan(t)
    \/ \E t \in Readers : AllowStore(t)
    \/ \E g \in ScanRules : BumpAdd(g)
    \/ \E g \in ScanRules : BumpDel(g)
    \/ BumpClear

SpecRace == InitRace /\ [][NextRace]_vars

----------------------------------------------------------------------------
(* The swarm runtime: ask(query, user) over two cores, as the design       *)
(* states it.  The tufos are those of SwarmRunTest.getSwarmEnv.            *)

Tufo(iden, form, prop, valu, vvv) ==
    [iden |-> iden, form |-> form,
     props |-> (prop :> valu) @@ ((prop \o ":vvv") :> vvv)]

Tufo0 == Tufo("tufo0", FormFooBar, "foo:bar", "baz", "visi")

Tufo1 == Tufo("tufo1", FormFooBar, "foo:bar", "faz", "visi")

Tufo2 == Tufo("tufo2", FormFooBar, "foo:bar", "lol", "visi")

Tufo3 == Tufo("tufo3", FormFooBar, "foo:bar", "hai", "visi")

Tufo4 == Tufo("tufo4", FormZzzWoot, "zzz:woot", "10", "visi")

Tufo5 == Tufo("tufo5", FormZzzWoot, "zzz:woot", "12", "romp")

\* core0 and core1, in the order they are registered on the service bus
Cores == << <<Tufo0, Tufo1, Tufo4>>, <<Tufo2, Tufo3, Tufo5>> >>

\* the operators of a query
LiftOp(prop, valu) == [op |-> "lift", prop |-> prop, valu |-> valu, num |-> 0]

OptOp(name, num) == [op |-> "opt", prop |-> name, valu |-> "", num |-> num]

\* foo:bar="baz"
LiftBaz == LiftOp("foo:bar", "baz")

\* zzz:woot=10
LiftWoot10 == LiftOp("zzz:woot", "10")

\* foo:bar:vvv
LiftVvv == LiftOp("foo:bar:vvv", "")

\* %uniq
OptUniq == OptOp("uniq", 1)

\* %uniq=0
OptUniq0 == OptOp("uniq", 0)

\* one core's answer to a lift: its tufos that have the property, with
\* the value if one is given, in the core's order
LiftCore(core, o) ==
    SelectSeq(core, LAMBDA t : /\ o.prop \in DOMAIN t.props
                               /\ (o.valu = "" \/ t.props[o.prop] = o.valu))

\* the fan-out of a lift: every core's answer, in registration order
RECURSIVE LiftAll(_, _)
LiftAll(cores, o) ==
    IF cores = <<>> THEN <<>>
    ELSE LiftCore(Head(cores), o) \o LiftAll(Tail(cores), o)

\* the candidates the user's Rules object allows, by tufo.form.<form>,
\* and UserAuth.rules after those checks
RECURSIVE FilterByUser(_, _, _)
FilterByUser(cands, user, rc) ==
    IF cands = <<>> THEN [keep |-> <<>>, rc |-> rc]
    ELSE LET res  == IsUserAllowedOn(rc, user, FormPerm(Head(cands).form))
             rest == FilterByUser(Tail(cands), user, res.rc)
         IN  [keep |-> IF res.ret THEN <<Head(cands)>> \o rest.keep
                       ELSE rest.keep,
              rc |-> rest.rc]

\* dedup is on unless the option uniq is set to 0
DedupOn(options) == "uniq" \notin DOMAIN options \/ options["uniq"] # 0

\* ^prop and ^dst=src, &prop and &dst=src: valu is "" when one property
\* is named
PivotOp(prop, srcprop) ==
    [op |-> "pivot", prop |-> prop, valu |-> srcprop, num |-> 0]

JoinOp(prop, srcprop) ==
    [op |-> "join", prop |-> prop, valu |-> srcprop, num |-> 0]

\* ^foo:bar:vvv
PivotVvv == PivotOp("foo:bar:vvv", "")

\* ^foo:bar:vvv=foo:bar:vvv
PivotVvvVvv == PivotOp("foo:bar:vvv", "foo:bar:vvv")

\* &foo:bar:vvv
JoinVvv == JoinOp("foo:bar:vvv", "")

\* &zzz:woot:vvv=foo:bar:vvv
JoinWootVvv == JoinOp("zzz:woot:vvv", "foo:bar:vvv")

\* the property a pivot or join takes its values from, and the one it
\* lifts by: the one property named is both
SrcProp(o) == IF o.valu = "" THEN o.prop ELSE o.valu

DstProp(o) == o.prop

\* the distinct values of a property over a result set, first seen first
RECURSIVE DistinctVals(_, _)
DistinctVals(tufos, prop) ==
    IF tufos = <<>> THEN <<>>
    ELSE LET rest == DistinctVals(SubSeq(tufos, 1, Len(tufos) - 1), prop)
             t    == tufos[Len(tufos)]
         IN  IF prop \in DOMAIN t.props /\ t.props[prop] \notin Range(rest)
             THEN Append(rest, t.props[prop])
             ELSE rest

\* a fan-out that one failing store empties
RespondingNone(cores, down) ==
    [i \in 1..Len(cores) |-> IF down # {} THEN <<>> ELSE cores[i]]

\* the stores as a stage hears from them: one that fails or cannot be
\* reached contributes nothing
Responding(cores, down) ==
    [i \in 1..Len(cores) |-> IF i \in down THEN <<>> ELSE cores[i]]

\* the fan-outs of a pivot or join: a lift by the target property for
\* each value
RECURSIVE PivotAll(_, _, _)
PivotAll(cores, prop, vals) ==
    IF vals = <<>> THEN <<>>
    ELSE LiftAll(cores, LiftOp(prop, Head(vals)))
             \o PivotAll(cores, prop, Tail(vals))

\* a join that replaces the result set as a pivot does
CombineReplace(o, prior, fresh) == fresh

\* the combination rule: Lift and Pivot replace, Join unions with the
\* prior set
Combine(o, prior, fresh) ==
    IF o.op = "join" THEN prior \o fresh ELSE fresh

\* one operator of the query on the state of the run
AskStep(st, o, user) ==
    IF o.op = "opt"
    THEN [st EXCEPT !.options = (o.prop :> o.num) @@ @]
    ELSE LET cores == Responding(Cores, st.down)
             cands == IF o.op = "lift" THEN LiftAll(cores, o)
                      ELSE PivotAll(cores, DstProp(o),
                                    DistinctVals(st.data, SrcProp(o)))
             filt  == IF user = None THEN [keep |-> cands, rc |-> st.rc]
                      ELSE FilterByUser(cands, user, st.rc)
             fresh == IF DedupOn(st.options)
                      THEN SelectSeq(filt.keep, LAMBDA t : t.iden \notin st.seen)
                      ELSE filt.keep
         IN  [options |-> st.options,
              data |-> Combine(o, st.data, fresh),
              seen |-> IF DedupOn(st.options)
                       THEN st.seen \cup {t.iden : t \in Range(fresh)}
                       ELSE st.seen,
              rc |-> filt.rc,
              down |-> st.down,
              failed |-> st.failed \cup st.down]

RECURSIVE AskRun(_, _, _)
AskRun(st, query, user) ==
    IF query = <<>> THEN st
    ELSE AskRun(AskStep(st, Head(query), user), Tail(query), user)

\* the run of a query from options = {}, resultSet = {}, seen = {}, with
\* the stores of down failing
AskAnswerDown(query, user, rc, down) ==
    AskRun([options |-> EmptyMap, data |-> <<>>, seen |-> {}, rc |-> rc,
            down |-> down, failed |-> {}],
           query, user)

\* the run of a query with every store answering
AskAnswer(query, user, rc) == AskAnswerDown(query, user, rc, {})

Idens(tufos) == [i \in 1..Len(tufos) |-> tufos[i].iden]

\* ask(query, user=user): an unknown user fails before any dispatch
Ask(query, user) ==
    LET call == [NoCall EXCEPT !.op = "ask", !.user = user, !.query = query]
    IN  /\ IF user # None /\ user \notin users
           THEN Raise(call, "NoSuchUser")
           ELSE LET answ == AskAnswer(query, user, rcache)
                IN  /\ rcache' = answ.rc
                    /\ last' = [call EXCEPT !.data = Idens(answ.data)]
                    /\ UNCHANGED <<users, roles, userRules, roleRules, links>>
        /\ UNCHANGED <<thr, bmp, actfuncs, reacted>>

\* ask(query) while the stores of down fail or cannot be reached: the
\* failure is recorded beside the answer
AskDown(query, down) ==
    LET call == [NoCall EXCEPT !.op = "ask", !.query = query, !.down = down]
        answ == AskAnswerDown(query, None, rcache, down)
    IN  /\ last' = [call EXCEPT !.data = Idens(answ.data),
                                !.failed = answ.failed]
        /\ UNCHANGED <<users, roles, userRules, roleRules, links, rcache>>
        /\ UNCHANGED <<thr, bmp, actfuncs, reacted>>

\* the operators queries are made of
QueryOps ==
    {LiftBaz, LiftWoot10, LiftVvv, OptUniq, OptUniq0,
     PivotVvv, PivotVvvVvv, JoinVvv, JoinWootVvv}

Queries(n) == UNION {[1..k -> QueryOps] : k \in 1..n}

\* the stores, by their place on the service bus
CoreIds == 1..Len(Cores)

NextAsk == \E q \in Queries(MaxOps) : Ask(q, None)

SpecAsk == Init /\ [][NextAsk]_vars

\* the most operators of a query asked while stores may fail
MaxDownOps == 2

\* the operators those queries are made of
DownOps == {LiftBaz, LiftWoot10, LiftVvv, PivotVvv, JoinVvv, JoinWootVvv}

DownQueries(n) == UNION {[1..k -> DownOps] : k \in 1..n}

\* ask() with any of the stores failing, or none
NextAskDown ==
    \E q \in DownQueries(MaxDownOps), d \in SUBSET CoreIds : AskDown(q, d)

SpecAskDown == Init /\ [][NextAskDown]_vars

\* ask() for a user, between the calls of the auth store
UserQueries == {<<LiftBaz>>, <<LiftWoot10>>}

NextAskUser ==
    \/ Next
    \/ \E q \in UserQueries, u \in UserNames : Ask(q, u)

SpecAskUser == Init /\ [][NextAskUser]_vars

----------------------------------------------------------------------------
(* The Reactor: one handler a message type, which returns a result.  A     *)
(* message is tufo(type, x=n), here <<type, n>>.                           *)

\* the most registrations made on a Reactor
MaxActs == 3

\* the message types handlers are registered for
ActNames == {"foo:bar", "zzz:woot"}

\* the types of the messages dispatched: one has no handler ever
MesgNames == ActNames \cup {"lol:hai"}

\* the x of a message
MesgVals == {0, 30}

\* the handlers: doFooBar of the class docstring, one that returns the x
\* it is given, and one that raises
Handlers == {"doFooBar", "doEcho", "doFail"}

\* the call func(mesg): what the handler returns, or what it raises
Invoke(func, mesg) ==
    IF func = "doFooBar" THEN [ret |-> 20 + mesg[2], err |-> ""]
    ELSE IF func = "doEcho" THEN [ret |-> mesg[2], err |-> ""]
    ELSE [ret |-> 0, err |-> "HandlerError"]

\* a registration that leaves a handler already there in place
ActKeepFirst(name, func) ==
    /\ Len(reacted.regs) < MaxActs
    /\ actfuncs' = actfuncs @@ (name :> func)
    /\ reacted' = [NoReact EXCEPT !.regs = Append(reacted.regs, <<name, func>>),
                                  !.op = "act"]
    /\ UNCHANGED <<users, roles, userRules, roleRules, links, rcache, last,
                   thr, bmp>>

\* Reactor.act: self.actfuncs[name] = func
Act(name, func) ==
    /\ Len(reacted.regs) < MaxActs
    /\ actfuncs' = (name :> func) @@ actfuncs
    /\ reacted' = [NoReact EXCEPT !.regs = Append(reacted.regs, <<name, func>>),
                                  !.op = "act"]
    /\ UNCHANGED <<users, roles, userRules, roleRules, links, rcache, last,
                   thr, bmp>>

\* a dispatch that calls the handler again when it raised, and answers 0
\* when there is no handler
ReactRetry(mesg) ==
    LET res == IF mesg[1] \in DOMAIN actfuncs
               THEN Invoke(actfuncs[mesg[1]], mesg)
               ELSE [ret |-> 0, err |-> ""]
    IN  /\ reacted' = [NoReact EXCEPT
               !.regs = reacted.regs, !.op = "react", !.mesg = mesg,
               !.invoked = IF mesg[1] \notin DOMAIN actfuncs THEN <<>>
                           ELSE IF res.err # ""
                           THEN <<actfuncs[mesg[1]], actfuncs[mesg[1]]>>
                           ELSE <<actfuncs[mesg[1]]>>,
               !.ret = res.ret, !.err = res.err, !.before = actfuncs]
        /\ UNCHANGED <<users, roles, userRules, roleRules, links, rcache,
                       last, thr, bmp, actfuncs>>

\* Reactor.react: func = self.actfuncs.get(mesg[0]); NoSuchAct if there is
\* none; return func(mesg), whose exception goes up as it is
React(mesg) ==
    LET call == [NoReact EXCEPT !.regs = reacted.regs, !.op = "react",
                                !.mesg = mesg, !.before = actfuncs]
    IN  /\ IF mesg[1] \notin DOMAIN actfuncs
           THEN reacted' = [call EXCEPT !.err = "NoSuchAct"]
           ELSE LET func == actfuncs[mesg[1]]
                    res  == Invoke(func, mesg)
                IN  reacted' = [call EXCEPT !.invoked = <<func>>,
                                            !.ret = res.ret,
                                            !.err = res.err]
        /\ UNCHANGED <<users, roles, userRules, roleRules, links, rcache,
                       last, thr, bmp, actfuncs>>

NextReactor ==
    \/ \E n \in ActNames, f \in Handlers : Act(n, f)
    \/ \E n \in MesgNames, x \in MesgVals : React(<<n, x>>)

\* Reactor(): an empty table
SpecReactor == Init /\ [][NextReactor]_vars

----------------------------------------------------------------------------
(* What the claims speak of *)

\* the last call returned, it did not raise
Returned(op) == last.op = op /\ last.err = ""

\* what isUserAllowed(user, perm) returns if it is called now
AllowNow(user, perm) == IsUserAllowedOn(rcache, user, perm).ret

\* some rule of the list glob-matches the permission
SomeRuleMatches(rules, perm) ==
    \E i \in 1..Len(rules) : FnMatch(perm, rules[i])

\* the user's Rules object, if there is one, holds the user's rules as
\* they are now and no decision
Resynced(user) ==
    user \in DOMAIN rcache =>
        /\ rcache[user].rules = GetUserRules(user)
        /\ rcache[user].cache = EmptyMap

----------------------------------------------------------------------------
(* Sanity of the store *)

\* every auth:userrole tufo names a user and a role that exist
LinksWellFormed ==
    \A l \in links : l.user \in users /\ l.role \in roles

----------------------------------------------------------------------------
(* The claims *)

\* C1: right after addUserRule(u, r) or delUserRule(u, r) returns,
\* isUserAllowed(u, p) is what the rule matcher says of p on u's rules
\* after the change, whatever was cached for p before the call.
C1_RuleChangeSeenAtOnce ==
    (Returned("addUserRule") \/ Returned("delUserRule")) =>
        \A p \in Perms :
            AllowNow(last.user, p) = SomeRuleMatches(GetUserRules(last.user), p)

\* C1 witness: addUserRule returned for a user whose Rules object had
\* denied 'tufo.form.foo:bar', and the check now allows it.
C1_Witness ==
    /\ Returned("addUserRule")
    /\ PermFooBar \in last.cached
    /\ AllowNow(last.user, PermFooBar)

\* C2: while _onBumpUser is under way, no state pairs the rule list it
\* installed with a decision made from the list before: every decision
\* in the map is the one the installed list gives.
C2_SwapIsAtomic ==
    bmp = "clear" =>
        \A p \in DOMAIN rcache[UserA].cache :
            rcache[UserA].cache[p] = SomeRuleMatches(rcache[UserA].rules, p)

\* C3: a call of allow(p) that began after the last invalidation had
\* completed returns what the rule matcher says of p on the list that
\* invalidation installed.
C3_NoStaleDecisionServed ==
    \A t \in DOMAIN thr :
        (thr[t].pc = "done" /\ thr[t].clean) =>
            thr[t].ret = SomeRuleMatches(rcache[UserA].rules, thr[t].perm)

\* C4: when tele:sock:init is delivered, the handler of every Rules
\* object completes without error, and the object then holds the user's
\* rules as the store has them and an empty decision map.
C4_TeleSockResyncs ==
    last.op = "tele:sock:init" =>
        /\ last.err = ""
        /\ \A u \in DOMAIN rcache : Resynced(u)

\* C5: addRoleRule and delRoleRule on a role notify every user linked to
\* the role: when the call returns, the Rules object of each of them
\* holds the user's rules with the role's rules as they now are, and no
\* decision.
C5_RoleRuleChangeBumpsLinkedUsers ==
    (Returned("addRoleRule") \/ Returned("delRoleRule")) =>
        /\ last.bumped = UsersOfRole(links, last.role)
        /\ \A u \in UsersOfRole(links, last.role) :
               /\ Resynced(u)
               /\ Range(roleRules[last.role]) \subseteq Range(GetUserRules(u))

\* C5 witness: addRoleRule returned with two users linked to the role,
\* both with a Rules object, which now holds the added rule.
C5_Witness ==
    /\ Returned("addRoleRule")
    /\ Cardinality(UsersOfRole(links, last.role)) = 2
    /\ \A u \in UsersOfRole(links, last.role) :
           u \in DOMAIN rcache /\ last.rule \in Range(rcache[u].rules)

\* C6: after delUserRole(u, role) the role's rules are no longer among
\* u's rules, in getUserRules and in u's Rules object, and the next check
\* goes by the rules left; after addUserRole(u, role) the role's rules are
\* among u's rules and the next check goes by them.
C6_GrantRevokeSeenOnNextCheck ==
    /\ Returned("delUserRole") =>
           /\ \A l \in links : ~(l.user = last.user /\ l.role = last.role)
           /\ Resynced(last.user)
           /\ \A p \in Perms :
                  AllowNow(last.user, p)
                      = SomeRuleMatches(GetUserRules(last.user), p)
    /\ Returned("addUserRole") =>
           /\ Range(roleRules[last.role]) \subseteq Range(GetUserRules(last.user))
           /\ Resynced(last.user)
           /\ \A p \in Perms :
                  SomeRuleMatches(roleRules[last.role], p)
                      => AllowNow(last.user, p)

\* C7: delRole(role) removes the role and every link to it and notifies
\* every user that was linked: when it returns, no user's rules and no
\* Rules object hold a rule the role contributed, and getUserRules
\* succeeds for each user that was linked.
C7_DelRoleCascades ==
    Returned("delRole") =>
        /\ last.role \notin roles
        /\ \A l \in links : l.role # last.role
        /\ \A u \in last.bumped : u \in users /\ Resynced(u)
        /\ \A u \in DOMAIN rcache :
               \A g \in Range(rcache[u].rules) \cap Range(last.old) :
                   g \in Range(GetUserRules(u))

\* C8: allow(p) on a Rules object with rule list R returns true exactly
\* when some rule of R glob-matches p, so false when R is empty, and a
\* second allow(p) with no invalidation between returns what the first
\* did: every decision held is the matcher's, and is what is served.
C8_AllowIsRuleMatcher ==
    /\ \A u \in DOMAIN rcache :
           \A p \in DOMAIN rcache[u].cache :
               rcache[u].cache[p] = SomeRuleMatches(rcache[u].rules, p)
    /\ Returned("isUserAllowed") =>
           /\ last.ret = SomeRuleMatches(rcache[last.user].rules, last.perm)
           /\ rcache[last.user].rules = <<>> => last.ret = FALSE
           /\ AllowPeek(rcache[last.user], last.perm) = last.ret

\* C8 witness: allow(p) returned a cached False on a rule list of two
\* rules.
C8_Witness ==
    /\ Returned("isUserAllowed")
    /\ last.perm \in last.cached
    /\ last.ret = FALSE
    /\ Len(rcache[last.user].rules) = 2

\* the tufos of a list whose tufo.form.<form> the rules allow
AllowedOf(tufos, rules) ==
    SelectSeq(tufos, LAMBDA t : SomeRuleMatches(rules, FormPerm(t.form)))

\* C9: the data of ask(query, user=u) is the data of the same query asked
\* without a user, less the tufos whose tufo.form.<form> no rule of u's
\* rules as they now are allows.
C9_AskFiltersByCurrentRules ==
    (Returned("ask") /\ last.user # None) =>
        last.data = Idens(AllowedOf(AskAnswer(last.query, None, rcache).data,
                                    GetUserRules(last.user)))

\* the queries of two lifts of the same single tufo
TwiceLifted(o) == {<<o, o>>, <<OptUniq, o, o>>, <<OptUniq0, o, o>>}

\* C10: a query of two lifts that each select the same one tufo returns
\* that tufo once with dedup on ( the default, or %uniq ) and twice with
\* %uniq=0.
C10_UniqLiftTwice ==
    \A o \in {LiftBaz, LiftWoot10} :
        (Returned("ask") /\ last.query \in TwiceLifted(o)) =>
            LET one == Idens(LiftAll(Cores, o))
            IN  last.data = IF last.query[1] = OptUniq0 THEN one \o one
                            ELSE one

\* every tufo of every store
AllTufos == UNION {Range(Cores[i]) : i \in CoreIds}

\* the tufos, of any store, whose property dst has a value that the
\* property src has on some tufo of the list
PivotTargets(tufos, src, dst) ==
    {t \in AllTufos :
        /\ dst \in DOMAIN t.props
        /\ \E l \in Range(tufos) :
               src \in DOMAIN l.props /\ l.props[src] = t.props[dst]}

IdenSet(S) == {t.iden : t \in S}

\* the last call was ask(<<lift, o>>) with every store answering
AskedLiftThen(lift, o) ==
    /\ Returned("ask")
    /\ last.user = None
    /\ last.down = {}
    /\ last.query = <<lift, o>>

\* C11: the data of Lift ; Pivot with default options is exactly the
\* tufos, of all stores, whose target property equals a source property
\* value of a lifted tufo, whether the pivot names one property or the
\* same property twice; foo:bar="baz" pivoted on foo:bar:vvv gives 4.
C11_PivotReplaces ==
    \A lift \in {LiftBaz, LiftWoot10, LiftVvv}, o \in {PivotVvv, PivotVvvVvv} :
        AskedLiftThen(lift, o) =>
            /\ Range(last.data)
                   = IdenSet(PivotTargets(LiftAll(Cores, lift),
                                          "foo:bar:vvv", "foo:bar:vvv"))
            /\ Len(last.data) = Cardinality(Range(last.data))
            /\ lift = LiftBaz => Len(last.data) = 4

\* C12: the data of Lift ; Join with default options is the lifted tufos
\* and the pivot targets, each once: foo:bar="baz" joined on foo:bar:vvv
\* gives 4, and joined onto zzz:woot:vvv by foo:bar:vvv gives 2.
C12_JoinUnions ==
    \A lift \in {LiftBaz, LiftWoot10, LiftVvv}, o \in {JoinVvv, JoinWootVvv} :
        AskedLiftThen(lift, o) =>
            LET lifted == LiftAll(Cores, lift)
            IN  /\ Range(last.data)
                       = IdenSet(Range(lifted))
                           \cup IdenSet(PivotTargets(lifted, SrcProp(o),
                                                     DstProp(o)))
                /\ Len(last.data) = Cardinality(Range(last.data))
                /\ (lift = LiftBaz /\ o = JoinVvv) => Len(last.data) = 4
                /\ (lift = LiftBaz /\ o = JoinWootVvv) => Len(last.data) = 2

\* C12 witness: foo:bar="baz" &zzz:woot:vvv=foo:bar:vvv returned tufo0
\* and the one zzz:woot tufo with its vvv.
C12_Witness ==
    /\ AskedLiftThen(LiftBaz, JoinWootVvv)
    /\ last.data = <<"tufo0", "tufo4">>

\* the store of a tufo is among those of the set
HeldBy(iden, ids) == \E i \in ids : iden \in IdenSet(Range(Cores[i]))

\* the query has a fan-out stage
FansOut(query) == \E i \in 1..Len(query) : query[i].op # "opt"

\* the query is made of lifts and options only
LiftsOnly(query) == \A i \in 1..Len(query) : query[i].op \in {"lift", "opt"}

\* C13: when stores fail during a fan-out, ask still returns: its data
\* holds tufos of the surviving stores only, for a query of lifts it is
\* the data of the query with every store answering less the failing
\* stores' tufos, and the failing stores are recorded with the answer.
C13_PartialStoreFailure ==
    (last.op = "ask" /\ last.user = None /\ last.down # {}) =>
        /\ last.err = ""
        /\ \A i \in 1..Len(last.data) :
               HeldBy(last.data[i], CoreIds \ last.down)
        /\ LiftsOnly(last.query) =>
               last.data
                   = SelectSeq(Idens(AskAnswer(last.query, None, rcache).data),
                               LAMBDA x : HeldBy(x, CoreIds \ last.down))
        /\ FansOut(last.query) => last.failed = last.down

\* C13 witness: foo:bar:vvv with the second store failing returned the
\* two tufos of the first store, and the failure with them.
C13_Witness ==
    /\ Returned("ask")
    /\ last.query = <<LiftVvv>>
    /\ last.down = {2}
    /\ last.failed = {2}
    /\ last.data = <<"tufo0", "tufo1">>

\* no handler
NoFunc == ""

\* the handler of the latest registration for a message type among the
\* registrations made, NoFunc if there is none
RECURSIVE LastRegistered(_, _)
LastRegistered(regs, name) ==
    IF regs = <<>> THEN NoFunc
    ELSE IF regs[Len(regs)][1] = name THEN regs[Len(regs)][2]
         ELSE LastRegistered(SubSeq(regs, 1, Len(regs) - 1), name)

\* the latest handler registered for the type of the message dispatched
LatestFunc ==
    IF reacted.op = "react" THEN LastRegistered(reacted.regs, reacted.mesg[1])
    ELSE NoFunc

\* C17: whatever registrations were made, react(mesg) calls one handler
\* once, the one registered last for the type mesg[0], and returns what
\* that handler returns for mesg.
C17_ReactCallsLatestHandler ==
    LET func == LatestFunc
    IN  (reacted.op = "react" /\ func # NoFunc) =>
            /\ reacted.invoked = <<func>>
            /\ Invoke(func, reacted.mesg).err = "" =>
                   /\ reacted.err = ""
                   /\ reacted.ret = Invoke(func, reacted.mesg).ret

\* C17 witness: react returned 50 from doFooBar, registered for foo:bar
\* after another handler had been.
C17_Witness ==
    /\ reacted.op = "react"
    /\ reacted.mesg = <<"foo:bar", 30>>
    /\ reacted.regs = << <<"foo:bar", "doEcho">>, <<"foo:bar", "doFooBar">> >>
    /\ reacted.invoked = <<"doFooBar">>
    /\ reacted.ret = 50

\* C18: react(mesg) for a type with no handler raises NoSuchAct, calls no
\* handler and leaves the table as it was; when the handler raises, its
\* exception is what the caller gets, and the handler was called once.
C18_ReactErrors ==
    LET func == LatestFunc
    IN  reacted.op = "react" =>
            /\ func = NoFunc =>
                   /\ reacted.err = "NoSuchAct"
                   /\ reacted.invoked = <<>>
            /\ reacted.before = actfuncs
            /\ (func # NoFunc /\ Invoke(func, reacted.mesg).err # "") =>
                   /\ reacted.err = Invoke(func, reacted.mesg).err
                   /\ Len(reacted.invoked) = 1

\* C18 witness: a handler that raises was called once and its exception
\* reached the caller, on a Reactor that holds another handler too.
C18_Witness ==
    /\ reacted.op = "react"
    /\ reacted.err = "HandlerError"
    /\ reacted.invoked = <<"doFail">>
    /\ Cardinality(DOMAIN actfuncs) = 2

\* C16: getUser and getRole never raise; they return the subject's tufo
\* while the subject is in the store and None otherwise.
C16_GetReturnsSubject ==
    /\ last.op = "getUser" =>
           /\ last.err = ""
           /\ last.tufo = IF last.user \in users THEN last.user ELSE None
    /\ last.op = "getRole" =>
           /\ last.err = ""
           /\ last.tufo = IF last.role \in roles THEN last.role ELSE None

\* the step leaves the store and every Rules object as they were
StoreUnchanged ==
    UNCHANGED <<users, roles, userRules, roleRules, links, rcache>>

\* the calls that name a user and change its rules or roles
UserChanges == {"addUserRule", "delUserRule", "addUserRole", "delUserRole"}

\* the calls that change the rules of a role
RoleChanges == {"addRoleRule", "delRoleRule"}

\* C14: addUser of a user that exists raises DupUser and addRole of a
\* role that exists raises DupRole, and the step changes nothing: users,
\* roles, rules, links and Rules objects are as before, nobody is bumped.
C14_DuplicateAddFails ==
    [][/\ (last'.op = "addUser" /\ last'.user \in users) =>
              (last'.err = "DupUser" /\ last'.bumped = {} /\ StoreUnchanged)
       /\ (last'.op = "addRole" /\ last'.role \in roles) =>
              (last'.err = "DupRole" /\ last'.bumped = {} /\ StoreUnchanged)
      ]_vars

\* C14 witness: addUser raised DupUser for a user with a rule, a role
\* and a Rules object that holds a decision.
C14_Witness ==
    /\ last.op = "addUser"
    /\ last.err = "DupUser"
    /\ GetUserRules(last.user) # <<>>
    /\ \E l \in links : l.user = last.user
    /\ CachedPerms(last.user) # {}

\* C15: the six calls that change a user's rules, a role's rules or a
\* user's roles raise NoSuchUser or NoSuchRole when the user or role
\* they name is not in the store, also when the user is and the role is
\* not, and the step then changes nothing and bumps nobody.
C15_NotFoundChangesNothing ==
    [][/\ (last'.op \in UserChanges /\ last'.user \notin users) =>
              (last'.err = "NoSuchUser" /\ last'.bumped = {} /\ StoreUnchanged)
       /\ (last'.op \in RoleChanges /\ last'.role \notin roles) =>
              (last'.err = "NoSuchRole" /\ last'.bumped = {} /\ StoreUnchanged)
       /\ (/\ last'.op \in {"addUserRole", "delUserRole"}
           /\ last'.user \in users
           /\ last'.role \notin roles) =>
              (last'.err = "NoSuchRole" /\ last'.bumped = {} /\ StoreUnchanged)
      ]_vars

\* C15 witness: addUserRole raised NoSuchRole for a user who exists and
\* has a Rules object with a decision, while another role exists.
C15_Witness ==
    /\ last.op = "addUserRole"
    /\ last.err = "NoSuchRole"
    /\ last.user \in users
    /\ CachedPerms(last.user) # {}
    /\ roles # {}

\* C19: a change of user A's rules or roles leaves the Rules object of
\* every other user as it was, rules and decisions, and so does a change
\* of the rules of a role for every user who does not hold the role.
C19_BumpsAreDirected ==
    [][\A b \in DOMAIN rcache :
           (/\ last'.err = ""
            /\ \/ last'.op \in UserChanges /\ last'.user # b
               \/ /\ last'.op \in RoleChanges
                  /\ \A l \in links : ~(l.user = b /\ l.role = last'.role))
           => (b \in DOMAIN rcache' /\ rcache'[b] = rcache[b])
      ]_vars

\* C19 witness: addRoleRule returned and bumped a user, while another
\* user, who does not hold the role, has a Rules object with a decision.
C19_Witness ==
    /\ Returned("addRoleRule")
    /\ last.bumped # {}
    /\ \E b \in DOMAIN rcache \ last.bumped :
           /\ rcache[b].cache # EmptyMap
           /\ \A l \in links : ~(l.user = b /\ l.role = last.role)

\* C20: a user who is not in the store has no Rules object and no link,
\* so isUserAllowed for a deleted user raises NoSuchUser; a user just
\* added has no rules, own or of roles; and an isUserAllowed that finds
\* no Rules object makes one from the user's rules as they are then.
C20_DelUserDropsCache ==
    [][/\ DOMAIN rcache' \subseteq users'
       /\ \A l \in links' : l.user \in users'
       /\ (last'.op = "isUserAllowed" /\ last'.user \notin users) =>
              last'.err = "NoSuchUser"
       /\ (last'.op = "addUser" /\ last'.err = "") =>
              /\ last'.user \notin DOMAIN rcache'
              /\ GetUserRulesOf(userRules', roleRules', links', last'.user)
                     = <<>>
       /\ (/\ last'.op = "isUserAllowed"
           /\ last'.err = ""
           /\ last'.user \notin DOMAIN rcache) =>
              /\ rcache'[last'.user].rules
                     = GetUserRulesOf(userRules, roleRules, links, last'.user)
              /\ DOMAIN rcache'[last'.user].cache = {last'.perm}
      ]_vars

\* C20 witness: delUser returned for a user whose Rules object held a
\* decision, while a role with a rule is in the store.
C20_Witness ==
    /\ Returned("delUser")
    /\ last.cached # {}
    /\ last.user \notin DOMAIN rcache
    /\ \E r \in roles : roleRules[r] # <<>>

====
